---- MODULE Spec2Model ----
(***************************************************************************)
(* Model of agent/builder.py: one agent step (main) assembles a prompt,    *)
(* calls the backend, sanitizes the response (clean_llm_output), extracts  *)
(* file blocks (FILE_BLOCK_RE, parse_files) and writes the permitted ones  *)
(* (write_files), logging to logs/run.log (log_run).                       *)
(*                                                                         *)
(* Text is a sequence of tokens.  Every token stands for one fixed string  *)
(* and a text is the concatenation of its tokens:                          *)
(*   NL "\n"   SP " "   DASH "---"   MK "--- file:"   SL "/"   DOT "."     *)
(*   COL ":"   OUT "output"   PROG "progress.json"   X "a"                 *)
(* No string the code searches for ("--- file: ", " ---\n", "\n--- file: ",*)
(* "---", "..", "/", ":", "output/", "progress.json") can occur in a       *)
(* concatenation of these tokens other than on token boundaries, so the    *)
(* code's character-level tests are decided token by token.                *)
(***************************************************************************)
EXTENDS Integers, Sequences, FiniteSets, TLC

VARIABLES
  pc,              \* position of the step inside main (or of the sanitizer runs)
  step,            \* number of the current run of main
  fs,              \* filesystem: [files: location -> content, dirs: set of locations]
  fs0,             \* the filesystem after module import, before the first run
  fs_start,        \* the filesystem when the current run of main started
  run_log,         \* entries this run appended to logs/run.log
  run_log_prev,    \* number of entries earlier runs left in logs/run.log
  result,          \* subprocess result of call_ollama: returncode, stdout, stderr
  cleaned_output,  \* main's cleaned_output
  cleaned_twice,   \* clean_llm_output applied to cleaned_output
  file_blocks,     \* main's file_blocks: sequence of <<rel_path, content>>
  idx,             \* write_files: index of the next block of the for loop
  written,         \* write_files: the list written
  printed,         \* lines printed by this run
  outcome,         \* "running", "returned" (main returned) or "raised"
  error            \* type of the exception that left main, "" when none

vars == <<pc, step, fs, fs0, fs_start, run_log, run_log_prev, result,
          cleaned_output, cleaned_twice, file_blocks, idx, written, printed,
          outcome, error>>

\* ------------------------------------------------------------------ bounds
MaxSteps == 2     \* runs of main in one behaviour
MaxPieces == 2    \* pieces a backend response is made of
MaxLen == 4       \* tokens of a sanitizer input

\* ------------------------------------------------------------------ tokens
NL == "NL"
SP == "SP"
DASH == "---"
MK == "--- file:"
SL == "/"
DOT == "."
COL == ":"
OUT == "output"
PROG == "progress.json"
X == "a"

Min(S) == CHOOSE a \in S : \A b \in S : a <= b

IsAt(s, i, lit) ==
  /\ i >= 1
  /\ i + Len(lit) - 1 <= Len(s)
  /\ SubSeq(s, i, i + Len(lit) - 1) = lit

IsSpace(t) == t \in {SP, NL}

\* str.lstrip / rstrip / strip on whitespace
RECURSIVE LStrip(_)
LStrip(s) == IF s # <<>> /\ IsSpace(Head(s)) THEN LStrip(Tail(s)) ELSE s

RECURSIVE RStrip(_)
RStrip(s) ==
  IF s # <<>> /\ IsSpace(s[Len(s)]) THEN RStrip(SubSeq(s, 1, Len(s) - 1)) ELSE s

Strip(s) == RStrip(LStrip(s))

\* ------------------------------------------------------- clean_llm_output
\* str.splitlines: lines end at "\n"; a final "\n" opens no further line
RECURSIVE splitlines(_)
splitlines(s) ==
  IF s = <<>> THEN <<>>
  ELSE LET nls == {i \in 1..Len(s) : s[i] = NL}
       IN IF nls = {} THEN <<s>>
          ELSE LET i == Min(nls)
               IN <<SubSeq(s, 1, i - 1)>> \o splitlines(SubSeq(s, i + 1, Len(s)))

\* while lines and lines[-1].strip() == "---": lines.pop()
RECURSIVE PopTrailingDashes(_)
PopTrailingDashes(lines) ==
  IF lines # <<>> /\ Strip(lines[Len(lines)]) = <<DASH>>
  THEN PopTrailingDashes(SubSeq(lines, 1, Len(lines) - 1))
  ELSE lines

\* "\n".join(lines)
RECURSIVE JoinLines(_)
JoinLines(lines) ==
  IF lines = <<>> THEN <<>>
  ELSE IF Len(lines) = 1 THEN lines[1]
  ELSE lines[1] \o <<NL>> \o JoinLines(Tail(lines))

clean_llm_output(raw) == JoinLines(PopTrailingDashes(splitlines(raw)))

\* ---------------------------------------------------------- FILE_BLOCK_RE
MARK_OPEN == <<MK, SP>>          \* "--- file: "
MARK_CLOSE == <<SP, DASH, NL>>   \* " ---\n"
NEXT_MARK == <<NL, MK, SP>>      \* "\n--- file: " of the lookahead

\* Positions at which the lazy, DOTALL path group (.+?, at least one character)
\* of a match starting at i can end: those followed by " ---\n".
PathEnds(s, i) == {j \in (i + 3)..Len(s) : IsAt(s, j, MARK_CLOSE)}

\* Positions at which the lazy, DOTALL content group (.*?) starting at k can
\* end: those followed by "\n--- file: ", or the end of the text (\Z).
ContentEnds(s, k) ==
  {e \in k..(Len(s) + 1) : e = Len(s) + 1 \/ IsAt(s, e, NEXT_MARK)}

\* A match of FILE_BLOCK_RE can start at i.  The content group can always run
\* to the end of the text, so the first " ---\n" after a non-empty path decides.
MatchStartsAt(s, i) == IsAt(s, i, MARK_OPEN) /\ PathEnds(s, i) # {}

\* The match starting at i: its groups and the position after it.
FILE_BLOCK_RE(s, i) ==
  LET j == Min(PathEnds(s, i))
      k == j + Len(MARK_CLOSE)
      e == Min(ContentEnds(s, k))
  IN [path |-> SubSeq(s, i + Len(MARK_OPEN), j - 1),
      content |-> SubSeq(s, k, e - 1),
      end |-> e]

\* FILE_BLOCK_RE.finditer(s) from position pos: leftmost match first, the
\* search for the next one starting where the previous match ended.
RECURSIVE finditer(_, _)
finditer(s, pos) ==
  LET starts == {i \in pos..Len(s) : MatchStartsAt(s, i)}
  IN IF starts = {} THEN <<>>
     ELSE LET m == FILE_BLOCK_RE(s, Min(starts))
          IN <<m>> \o finditer(s, m.end)

\* ------------------------------------------------------------ parse_files
HasDotDot(p) == \E i \in 1..(Len(p) - 1) : p[i] = DOT /\ p[i + 1] = DOT

\* rel_path.startswith("/")
StartsWithSlash(p) == p # <<>> /\ p[1] = SL

\* ":" in rel_path; the text of the token MK holds a ':' too
HasColon(p) == \E i \in 1..Len(p) : p[i] \in {COL, MK}

IsUnsafePath_NoDotDot(rel_path) == StartsWithSlash(rel_path) \/ HasColon(rel_path)

IsUnsafePath_NoColon(rel_path) == HasDotDot(rel_path) \/ StartsWithSlash(rel_path)

\* ".." in rel_path or rel_path.startswith("/") or ":" in rel_path
IsUnsafePath(rel_path) ==
  HasDotDot(rel_path) \/ StartsWithSlash(rel_path) \/ HasColon(rel_path)

Msg(m, a) == [msg |-> m, arg |-> a]

SKIPPED_UNSAFE == "Skipped unsafe path: "
SKIPPED_UNAUTHORIZED == "Skipped unauthorized path: "
NO_FILES == "No files to write. Agent did nothing."
WRITTEN_FILES == "Written files:"
WRITTEN_ITEM == " -"

\* The loop of parse_files over the matches ms, from the accumulated blocks
\* and printed lines.
RECURSIVE ParseLoop(_, _, _)
ParseLoop(ms, blocks, out) ==
  IF ms = <<>> THEN [blocks |-> blocks, printed |-> out]
  ELSE LET rel_path == Strip(Head(ms).path)
           content == RStrip(Head(ms).content)
       IN IF Strip(content) = <<>>
          THEN ParseLoop(Tail(ms), blocks, out)
          ELSE IF IsUnsafePath(rel_path)
          THEN ParseLoop(Tail(ms), blocks, Append(out, Msg(SKIPPED_UNSAFE, rel_path)))
          ELSE ParseLoop(Tail(ms), Append(blocks, <<rel_path, content>>), out)

parse_files(llm_output) == ParseLoop(finditer(llm_output, 1), <<>>, <<>>)

\* ------------------------------------------------------------- filesystem
\* A location is the sequence of the names on the way from the root; a name
\* is a text.  Paths are resolved without symbolic links.
ROOT == <<>>
BASE == << <<"home">>, <<"project">> >>      \* Path(__file__).resolve().parents[1]
AGENT == Append(BASE, <<"agent">>)
OUTPUT == Append(BASE, <<OUT>>)
LOGS == Append(BASE, <<"logs">>)

PROMPT_TXT == Append(AGENT, <<"prompt.txt">>)
PROJECT_MD == Append(BASE, <<"project.md">>)
RULES_JSON == Append(BASE, <<"rules.json">>)
PROGRESS_JSON == Append(BASE, <<PROG>>)

\* the documents build_prompt reads, in the order it reads them
InputDocs == <<PROMPT_TXT, PROJECT_MD, RULES_JSON, PROGRESS_JSON>>

Parent(loc) == IF loc = ROOT THEN ROOT ELSE SubSeq(loc, 1, Len(loc) - 1)

Prefixes(loc) == {SubSeq(loc, 1, n) : n \in 0..Len(loc)}

\* the "/"-separated parts of a path text
RECURSIVE SplitPath(_)
SplitPath(p) ==
  LET sls == {i \in 1..Len(p) : p[i] = SL}
  IN IF sls = {} THEN <<p>>
     ELSE LET i == Min(sls)
          IN <<SubSeq(p, 1, i - 1)>> \o SplitPath(SubSeq(p, i + 1, Len(p)))

\* Walk the parts from a location: pathlib drops empty and "." parts, the
\* operating system takes ".." to the parent directory.
RECURSIVE Walk(_, _)
Walk(loc, parts) ==
  IF parts = <<>> THEN loc
  ELSE LET c == Head(parts)
       IN IF c = <<>> \/ c = <<DOT>> THEN Walk(loc, Tail(parts))
          ELSE IF c = <<DOT, DOT>> THEN Walk(Parent(loc), Tail(parts))
          ELSE Walk(Append(loc, c), Tail(parts))

\* target = BASE / rel_path: a rel_path starting with "/" replaces BASE
ResolveTarget(rel_path) ==
  Walk(IF StartsWithSlash(rel_path) THEN ROOT ELSE BASE, SplitPath(rel_path))

IsFile(f, loc) == loc \in DOMAIN f.files
IsDir(f, loc) == loc \in f.dirs

\* path.exists()
Exists(f, loc) == IsFile(f, loc) \/ IsDir(f, loc)

\* Path.mkdir(parents=True, exist_ok=True): the exception it raises, "" if none
MkdirError(f, loc) ==
  IF IsFile(f, loc) THEN "FileExistsError"
  ELSE IF \E a \in Prefixes(loc) : IsFile(f, a) THEN "NotADirectoryError"
  ELSE ""

\* Path.mkdir(parents=True, exist_ok=True) when it raises nothing
Mkdir(f, loc) == [f EXCEPT !.dirs = @ \cup Prefixes(loc)]

\* Path.write_text: the exception it raises, "" if none
WriteError(f, loc) == IF IsDir(f, loc) THEN "IsADirectoryError" ELSE ""

\* Path.write_text when it raises nothing: create or overwrite
WriteText(f, loc, content) ==
  [f EXCEPT !.files = [l \in DOMAIN @ \cup {loc} |->
                         IF l = loc THEN content ELSE @[l]]]

\* ------------------------------------------------------------ write_files
IsWhitelisted_NoConfig(rel_path) == IsAt(rel_path, 1, <<OUT, SL>>)

\* rel_path.startswith("output/") or rel_path == "progress.json"
IsWhitelisted(rel_path) ==
  IsAt(rel_path, 1, <<OUT, SL>>) \/ rel_path = <<PROG>>

\* One pass of the for loop of write_files on the block <<rel_path, content>>:
\* the filesystem, the lists written and printed, and the exception raised.
WriteBlock(f, wr, out, rel_path, content) ==
  LET target == ResolveTarget(rel_path)
  IN IF ~IsWhitelisted(rel_path)
     THEN [fs |-> f, written |-> wr, error |-> "",
           printed |-> Append(out, Msg(SKIPPED_UNAUTHORIZED, rel_path))]
     ELSE IF MkdirError(f, Parent(target)) # ""
     THEN [fs |-> f, written |-> wr, printed |-> out,
           error |-> MkdirError(f, Parent(target))]
     ELSE LET g == Mkdir(f, Parent(target))
          IN IF WriteError(g, target) # ""
             THEN [fs |-> g, written |-> wr, printed |-> out,
                   error |-> WriteError(g, target)]
             ELSE [fs |-> WriteText(g, target, content),
                   written |-> Append(wr, rel_path),
                   printed |-> out, error |-> ""]

\* ---------------------------------------------------------------- inputs
\* paths the backend may name in a marker line, as captured (untrimmed)
P_OUT_A == <<OUT, SL, X>>                  \* output/a
P_OUT_A_A == <<OUT, SL, X, SL, X>>         \* output/a/a
P_OUT_DIR == <<OUT, SL>>                   \* output/
P_PROG == <<PROG>>                         \* progress.json
P_A == <<X>>                               \* a
P_UP == <<DOT, DOT, SL, X>>                \* ../a
P_ABS == <<SP, SL, X>>                     \* " /a", "/a" once trimmed
P_COLON == <<OUT, SL, X, COL, X>>          \* output/a:a
P_OUT_UP == <<OUT, SL, DOT, DOT, SL, X>>   \* output/../a

Paths ==
  {P_OUT_A, P_OUT_A_A, P_OUT_DIR, P_PROG, P_A, P_UP, P_ABS, P_COLON, P_OUT_UP}

\* the line "--- file: <path> ---\n"
Marker(p) == MARK_OPEN \o p \o MARK_CLOSE

\* a marker line followed by one line of content
Block(p) == Marker(p) \o <<X, NL>>

\* whole blocks, a marker line with no content of its own, a stray "---" line
Pieces == {Block(p) : p \in Paths} \cup {Marker(P_A), <<DASH, NL>>}

RECURSIVE TextsOf(_, _)
TextsOf(parts, n) ==
  IF n = 0 THEN {<<>>}
  ELSE LET shorter == TextsOf(parts, n - 1)
       IN shorter \cup {t \o q : t \in shorter, q \in parts}

\* what the backend can print on success
Responses == TextsOf(Pieces, MaxPieces)

\* the raw texts given to the sanitizer on its own
CleanInputs == TextsOf({<<X>>, <<NL>>, <<DASH>>, <<SP>>}, MaxLen)

ReturnCodes == {0, 1}
Stderrs == {<<X>>}
FailStdouts == {<<>>, Block(P_OUT_A)}

DOC == <<"doc">>     \* content of an input document

NoResult == [returncode |-> 0, stdout |-> <<>>, stderr |-> <<>>]

\* ---------------------------------------------------------------- log_run
\* One entry of logs/run.log.  An error entry is "ERROR: " and the message of
\* call_ollama's RuntimeError: the exit code, stderr and stdout.  The
\* timestamp is left out.
OutputEntry(text) ==
  [error |-> FALSE, code |-> 0, stderr |-> <<>>, stdout |-> <<>>, text |-> text]

ErrorEntry(r) ==
  [error |-> TRUE, code |-> r.returncode, stderr |-> r.stderr,
   stdout |-> r.stdout, text |-> <<>>]

log_run(lg, entry) == Append(lg, entry)

\* ------------------------------------------------------------------- Init
\* The state after import: output/ and logs/ exist, any of the input
\* documents may be missing.
FsWith(present) ==
  [files |-> [l \in present |-> DOC],
   dirs |-> Prefixes(AGENT) \cup Prefixes(OUTPUT) \cup Prefixes(LOGS)]

StepStart ==
  /\ run_log = <<>>
  /\ result = NoResult
  /\ cleaned_output = <<>>
  /\ cleaned_twice = <<>>
  /\ file_blocks = <<>>
  /\ idx = 1
  /\ written = <<>>
  /\ printed = <<>>
  /\ outcome = "running"
  /\ error = ""

Init ==
  /\ pc = "build_prompt"
  /\ step = 1
  /\ \E present \in SUBSET {InputDocs[i] : i \in 1..Len(InputDocs)} :
       fs = FsWith(present)
  /\ fs0 = fs
  /\ fs_start = fs
  /\ run_log_prev = 0
  /\ StepStart

\* ------------------------------------------------------------------- main
\* read_file: the exception reading the document raises, "" if none
ReadError(f, loc) ==
  IF ~Exists(f, loc) THEN "FileNotFoundError"
  ELSE IF IsDir(f, loc) THEN "IsADirectoryError"
  ELSE ""

\* build_prompt: the exception of the first document that cannot be read
BuildPromptError(f) ==
  LET bad == {i \in 1..Len(InputDocs) : ReadError(f, InputDocs[i]) # ""}
  IN IF bad = {} THEN "" ELSE ReadError(f, InputDocs[Min(bad)])

BackendFailed_NegativeOnly(returncode) == returncode < 0

\* call_ollama: result.returncode != 0
BackendFailed(returncode) == returncode # 0

\* main raises exc
Raise(exc) ==
  /\ pc' = "done"
  /\ outcome' = "raised"
  /\ error' = exc

\* main returns
Return ==
  /\ pc' = "done"
  /\ outcome' = "returned"
  /\ error' = ""

\* prompt = build_prompt(), outside the try block
BuildPrompt ==
  /\ pc = "build_prompt"
  /\ IF BuildPromptError(fs) # ""
     THEN Raise(BuildPromptError(fs))
     ELSE pc' = "call_ollama" /\ UNCHANGED <<outcome, error>>
  /\ UNCHANGED <<step, fs, fs0, fs_start, run_log, run_log_prev, result,
                 cleaned_output, cleaned_twice, file_blocks, idx, written,
                 printed>>

\* the try block around call_ollama and clean_llm_output, its except clause,
\* and log_run(cleaned_output)
CallOllama ==
  /\ pc = "call_ollama"
  /\ \E rc \in ReturnCodes, err \in Stderrs :
       \E out \in (IF rc = 0 THEN Responses ELSE FailStdouts) :
         LET r == [returncode |-> rc, stdout |-> out, stderr |-> err]
         IN /\ result' = r
            /\ IF BackendFailed(rc)
               THEN /\ run_log' = log_run(run_log, ErrorEntry(r))
                    /\ Raise("RuntimeError")
                    /\ UNCHANGED cleaned_output
               ELSE /\ cleaned_output' = clean_llm_output(out)
                    /\ run_log' = log_run(run_log, OutputEntry(cleaned_output'))
                    /\ pc' = "parse_files"
                    /\ UNCHANGED <<outcome, error>>
  /\ UNCHANGED <<step, fs, fs0, fs_start, run_log_prev, cleaned_twice,
                 file_blocks, idx, written, printed>>

\* file_blocks = parse_files(cleaned_output), and the return when it is empty
ParseFiles ==
  /\ pc = "parse_files"
  /\ LET parsed == parse_files(cleaned_output)
     IN /\ file_blocks' = parsed.blocks
        /\ IF parsed.blocks = <<>>
           THEN /\ printed' = Append(printed \o parsed.printed, Msg(NO_FILES, <<>>))
                /\ Return
           ELSE /\ printed' = printed \o parsed.printed
                /\ pc' = "write_files"
                /\ UNCHANGED <<outcome, error>>
  /\ UNCHANGED <<step, fs, fs0, fs_start, run_log, run_log_prev, result,
                 cleaned_output, cleaned_twice, idx, written>>

\* one pass of the for loop of write_files; an exception leaves main
WriteFilesBlock ==
  /\ pc = "write_files"
  /\ idx <= Len(file_blocks)
  /\ LET w == WriteBlock(fs, written, printed,
                         file_blocks[idx][1], file_blocks[idx][2])
     IN /\ fs' = w.fs
        /\ written' = w.written
        /\ printed' = w.printed
        /\ idx' = idx + 1
        /\ IF w.error # ""
           THEN Raise(w.error)
           ELSE UNCHANGED <<pc, outcome, error>>
  /\ UNCHANGED <<step, fs0, fs_start, run_log, run_log_prev, result,
                 cleaned_output, cleaned_twice, file_blocks>>

\* write_files returns written; main prints the list and returns
WriteFilesReturn ==
  /\ pc = "write_files"
  /\ idx > Len(file_blocks)
  /\ printed' = Append(printed, Msg(WRITTEN_FILES, <<>>))
                  \o [i \in 1..Len(written) |-> Msg(WRITTEN_ITEM, written[i])]
  /\ Return
  /\ UNCHANGED <<step, fs, fs0, fs_start, run_log, run_log_prev, result,
                 cleaned_output, cleaned_twice, file_blocks, idx, written>>

\* the script is run again on the files the earlier runs left
NextRun ==
  /\ pc = "done"
  /\ step < MaxSteps
  /\ pc' = "build_prompt"
  /\ step' = step + 1
  /\ fs_start' = fs
  /\ run_log_prev' = run_log_prev + Len(run_log)
  /\ run_log' = <<>>
  /\ result' = NoResult
  /\ cleaned_output' = <<>>
  /\ cleaned_twice' = <<>>
  /\ file_blocks' = <<>>
  /\ idx' = 1
  /\ written' = <<>>
  /\ printed' = <<>>
  /\ outcome' = "running"
  /\ error' = ""
  /\ UNCHANGED <<fs, fs0>>

Next ==
  \/ BuildPrompt
  \/ CallOllama
  \/ ParseFiles
  \/ WriteFilesBlock
  \/ WriteFilesReturn
  \/ NextRun

Spec == Init /\ [][Next]_vars

\* ------------------------------------------- clean_llm_output, on its own
InitClean ==
  /\ pc = "clean"
  /\ step = 1
  /\ fs = FsWith({})
  /\ fs0 = fs
  /\ fs_start = fs
  /\ run_log_prev = 0
  /\ run_log = <<>>
  /\ \E x \in CleanInputs : result = [NoResult EXCEPT !.stdout = x]
  /\ cleaned_output = <<>>
  /\ cleaned_twice = <<>>
  /\ file_blocks = <<>>
  /\ idx = 1
  /\ written = <<>>
  /\ printed = <<>>
  /\ outcome = "running"
  /\ error = ""

CleanOnce ==
  /\ pc = "clean"
  /\ cleaned_output' = clean_llm_output(result.stdout)
  /\ pc' = "clean_again"
  /\ UNCHANGED <<step, fs, fs0, fs_start, run_log, run_log_prev, result,
                 cleaned_twice, file_blocks, idx, written, printed, outcome,
                 error>>

CleanAgain ==
  /\ pc = "clean_again"
  /\ cleaned_twice' = clean_llm_output(cleaned_output)
  /\ pc' = "cleaned"
  /\ UNCHANGED <<step, fs, fs0, fs_start, run_log, run_log_prev, result,
                 cleaned_output, file_blocks, idx, written, printed, outcome,
                 error>>

NextClean == CleanOnce \/ CleanAgain

SpecClean == InitClean /\ [][NextClean]_vars

\* =================================================================== claims
\* Vocabulary of the claims, stated apart from the code's own tests.

Locs(f) == f.dirs \cup DOMAIN f.files

\* the location holds the same thing (nothing, a directory, a file of the
\* same content) in the filesystems f and g
SameAt(f, g, loc) ==
  /\ IsDir(f, loc) <=> IsDir(g, loc)
  /\ IsFile(f, loc) <=> IsFile(g, loc)
  /\ IsFile(f, loc) /\ IsFile(g, loc) => f.files[loc] = g.files[loc]

\* the location is in the output/ tree of the project, or is progress.json
Confined(loc) == OUTPUT \in Prefixes(loc) \/ loc = PROGRESS_JSON

\* the path contains "..", begins with "/" or contains ":"
ClaimUnsafe(p) ==
  \/ \E i \in 1..Len(p) : p[i] \in {COL, MK}
  \/ \E i \in 2..Len(p) : p[i - 1] = DOT /\ p[i] = DOT
  \/ (Len(p) >= 1 /\ p[1] = SL)

\* the path is exactly progress.json or starts with output/
ClaimWhitelisted(p) ==
  p = <<PROG>> \/ (Len(p) >= 2 /\ p[1] = OUT /\ p[2] = SL)

Printed(m) == \E i \in 1..Len(printed) : printed[i].msg = m

InSeq(x, q) == \E i \in 1..Len(q) : q[i] = x

\* parse_files has run in this step
Parsed ==
  \/ pc = "write_files"
  \/ (pc = "done" /\ run_log # <<>> /\ ~run_log[Len(run_log)].error)

\* the matched blocks of the sanitized response that hold content: the
\* proposals of the response
Proposals ==
  LET ms == finditer(cleaned_output, 1)
  IN {[path |-> Strip(ms[i].path), content |-> RStrip(ms[i].content)] :
        i \in {k \in 1..Len(ms) : Strip(ms[k].content) # <<>>}}

\* the line is "--- file: <path> ---"
IsMarkerLine(line) ==
  /\ Len(line) >= 5
  /\ SubSeq(line, 1, 2) = <<MK, SP>>
  /\ SubSeq(line, Len(line) - 1, Len(line)) = <<SP, DASH>>

MarkerPath(line) == Strip(SubSeq(line, 3, Len(line) - 2))

\* The blocks of a text read line by line: every marker line opens a block,
\* every other line belongs to the block open before it.
RECURSIVE BlocksOfLines(_, _)
BlocksOfLines(lines, acc) ==
  IF lines = <<>> THEN acc
  ELSE IF IsMarkerLine(Head(lines))
  THEN BlocksOfLines(Tail(lines),
                     Append(acc, [path |-> MarkerPath(Head(lines)), body |-> <<>>]))
  ELSE IF acc = <<>> THEN BlocksOfLines(Tail(lines), acc)
  ELSE BlocksOfLines(Tail(lines),
         [acc EXCEPT ![Len(acc)].body = Append(@, Head(lines))])

TextBlocks(text) == BlocksOfLines(splitlines(text), <<>>)

HasContent(b) == \E i \in 1..Len(b.body) : Strip(b.body[i]) # <<>>

RECURSIVE Keep(_, _)
Keep(bs, acc) ==
  IF bs = <<>> THEN acc
  ELSE Keep(Tail(bs), IF HasContent(Head(bs)) THEN Append(acc, Head(bs)) ELSE acc)

\* the blocks of the text whose trimmed content is not empty, in order
NonEmptyBlocks(text) == Keep(TextBlocks(text), <<>>)

\* C1: Write confinement. After any sequence of runs of main, with any backend
\* responses, whatever differs from the filesystem before the first run lies
\* in the output/ tree or is progress.json; every other location holds what
\* it held (the run log is kept apart from the filesystem here).
C1_WriteConfinement ==
  \A loc \in Locs(fs) \cup Locs(fs0) : ~Confined(loc) => SameAt(fs, fs0, loc)

\* C1 witness: runs have created a directory below output/ and rewritten
\* progress.json, and the current run has skipped an unsafe path.
C1_Witness ==
  /\ IsDir(fs, Append(OUTPUT, <<X>>))
  /\ IsFile(fs, PROGRESS_JSON) /\ fs.files[PROGRESS_JSON] # DOC
  /\ Printed(SKIPPED_UNSAFE)

\* C2: Unsafe paths. A proposal whose trimmed path contains "..", begins with
\* "/" or contains ":" is not handed to write_files, is not written, and the
\* step changes neither the location it names nor any directory above it.
C2_UnsafeRejected ==
  \A m \in Proposals :
    ClaimUnsafe(m.path) =>
      /\ \A i \in 1..Len(file_blocks) : file_blocks[i][1] # m.path
      /\ ~InSeq(m.path, written)
      /\ \A loc \in Prefixes(ResolveTarget(m.path)) : SameAt(fs, fs_start, loc)
      /\ (Parsed => InSeq(Msg(SKIPPED_UNSAFE, m.path), printed))

\* C2 witness: a step that wrote a file has also met a block with content
\* whose path holds a ":" and one whose path begins with "/" once trimmed.
C2_Witness ==
  /\ pc = "done"
  /\ written # <<>>
  /\ \E m \in Proposals : m.path \in {P_COLON, Strip(P_ABS)}

\* C3 (amended): Whitelist classification of the proposals parse_files
\* returns. Each one write_files examines is accepted (written, or the write
\* attempted and failing) when its path is exactly progress.json or starts
\* with output/, and is otherwise reported as unauthorized and left unwritten.
C3_WhitelistOfParsed ==
  [][(pc = "write_files" /\ idx <= Len(file_blocks)) =>
       LET p == file_blocks[idx][1]
       IN IF ClaimWhitelisted(p)
          THEN \/ /\ written' = Append(written, p)
                  /\ IsFile(fs', ResolveTarget(p))
                  /\ fs'.files[ResolveTarget(p)] = file_blocks[idx][2]
               \/ outcome' = "raised"
          ELSE /\ printed' = Append(printed, Msg(SKIPPED_UNAUTHORIZED, p))
               /\ written' = written
               /\ fs' = fs
               /\ outcome' = "running"]_vars

\* C3 witness: one batch in which progress.json was written and another path
\* was reported as unauthorized.
C3_Witness ==
  /\ pc = "done"
  /\ InSeq(<<PROG>>, written)
  /\ Printed(SKIPPED_UNAUTHORIZED)

\* C3 as claimed: of the proposals of a step that returned, every one whose
\* path is progress.json or starts with output/ was written, every other one
\* was not.
C3_AsClaimed ==
  (pc = "done" /\ outcome = "returned" /\ Parsed) =>
    \A m \in Proposals :
      IF ClaimWhitelisted(m.path) THEN InSeq(m.path, written)
      ELSE ~InSeq(m.path, written)

\* C4 as claimed: write_files goes through the whole batch: once it is over,
\* main has not raised and every block with a whitelisted path is written.
C4_BatchNeverAborts ==
  (pc = "done" /\ file_blocks # <<>>) =>
    /\ outcome = "returned"
    /\ \A i \in 1..Len(file_blocks) :
         ClaimWhitelisted(file_blocks[i][1]) => InSeq(file_blocks[i][1], written)

\* C5 as claimed: clean_llm_output is idempotent: cleaning the cleaned text
\* again gives the cleaned text.
C5_Idempotent == pc = "cleaned" => cleaned_twice = cleaned_output

\* C6 as claimed: parse_files returns one proposal per block with non-empty
\* trimmed content, in the order of the blocks. Stated here for the texts all
\* of whose marker lines name safe paths, the well-formed ones.
C6_OrderAndCount ==
  LET want == NonEmptyBlocks(cleaned_output)
      all == TextBlocks(cleaned_output)
  IN (Parsed /\ \A i \in 1..Len(all) : ~ClaimUnsafe(all[i].path)) =>
       /\ Len(file_blocks) = Len(want)
       /\ \A i \in 1..Len(want) : file_blocks[i][1] = want[i].path

\* C7 as claimed: a marker line always ends the block before it: no content
\* of an extracted block holds a line "--- file: <path> ---".
C7_NoMarkerInContent ==
  \A i \in 1..Len(file_blocks) :
    LET lines == splitlines(file_blocks[i][2])
    IN \A k \in 1..Len(lines) : ~IsMarkerLine(lines[k])

\* C8 as claimed: when main ends with a missing input document or a failed
\* backend call, the step has appended an error entry to the run log.
C8_FailureLogged ==
  (pc = "done" /\ outcome = "raised"
     /\ error \in {"FileNotFoundError", "RuntimeError"}) =>
    (run_log # <<>> /\ run_log[Len(run_log)].error)

\* C9: a backend call with a non-zero status makes main raise the backend
\* error with no write: the filesystem is the one the step started with, and
\* the step's one log entry carries the status, stderr and stdout.
C9_BackendFailure ==
  result.returncode # 0 =>
    /\ pc = "done" /\ outcome = "raised" /\ error = "RuntimeError"
    /\ fs = fs_start
    /\ written = <<>> /\ file_blocks = <<>>
    /\ Len(run_log) = 1
    /\ run_log[1].error
    /\ run_log[1].code = result.returncode
    /\ run_log[1].stderr = result.stderr
    /\ run_log[1].stdout = result.stdout

\* C9 witness: the backend failed after printing a block for output/a, in a
\* project an earlier run has written to.
C9_Witness ==
  /\ result.returncode # 0
  /\ result.stdout = Block(P_OUT_A)
  /\ fs # fs0

\* C10 as claimed: a step that returns without having written a file has
\* printed that there was nothing to write.
C10_NothingWrittenReported ==
  (pc = "done" /\ outcome = "returned" /\ written = <<>>) => Printed(NO_FILES)

====
